---------------------------- MODULE Spec2Model ----------------------------
(***************************************************************************)
(* A model of imh2fits.py: conversion of IRAF OIF images (a ".imh" header  *)
(* file and its ".pix" pixel file) to FITS.                                *)
(*                                                                         *)
(* File contents are sequences of bytes (0..255) at the offsets the code   *)
(* uses.  Text is a sequence of one-character strings.  Python values of   *)
(* mixed type are represented by names: None is "None", the booleans are   *)
(* "True" and "False", the file-type codes are their names.  An object is  *)
(* a record holding exactly the attributes assigned so far, so a missing   *)
(* attribute is a field absent from DOMAIN.  A raised exception is the     *)
(* name of its class in exc ("None" when nothing was raised).              *)
(***************************************************************************)
EXTENDS Integers, Sequences, FiniteSets, TLC

VARIABLES
    byteorder,   \* sys.byteorder of the host: "big" or "little"
    force_swap,  \* global option -s
    debug,       \* global option -d
    verbose,     \* global option -v
    list_only,   \* global option -l
    pc,          \* position of the operation under way
    path,        \* path argument of the constructor under way
    content,     \* bytes of the file being decoded
    ret,         \* value returned by fileType
    hdrfile,     \* the OIFHeader object (self)
    pixfile,     \* the OIFPixfile object (self)
    hdu,         \* the FITS primary HDU built by toFITS
    exc,         \* the exception raised, "None" if none
    files,       \* the driver's list of input files
    fi,          \* the driver's position in files (0-based)
    written,     \* FITS files written so far, in order
    disk         \* names of the files on disk

vars == <<byteorder, force_swap, debug, verbose, list_only, pc, path, content,
          ret, hdrfile, pixfile, hdu, exc, files, fi, written, disk>>

-----------------------------------------------------------------------------
(* Bounds of the model *)

\* Bytes that may follow the ten magic bytes of a buffer given to fileType.
MaxTail == 1

-----------------------------------------------------------------------------
(* Python values and sequence operations *)

None == "None"
NoObject == [none |-> TRUE]

PyBool(b) == IF b THEN "True" ELSE "False"
Truthy(x) == x = "True"

Min(a, b) == IF a < b THEN a ELSE b
Max(a, b) == IF a > b THEN a ELSE b

\* A slice bound as Python normalises it for a sequence of length n.
SliceBound(i, n) == IF i < 0 THEN Max(i + n, 0) ELSE Min(i, n)

\* s[lo:hi]
PySlice(s, lo, hi) ==
    LET a == SliceBound(lo, Len(s))
        b == SliceBound(hi, Len(s))
    IN  IF a >= b THEN <<>> ELSE SubSeq(s, a + 1, b)

\* s[lo:]
PyFrom(s, lo) == PySlice(s, lo, Len(s))

\* s[:hi]
PyTo(s, hi) == PySlice(s, 0, hi)

Zeros(n) == [i \in 1..n |-> 0]

RECURSIVE Concat(_)
Concat(ss) == IF ss = <<>> THEN <<>> ELSE Head(ss) \o Concat(Tail(ss))

Reverse(s) == [i \in 1..Len(s) |-> s[Len(s) + 1 - i]]

-----------------------------------------------------------------------------
(* File types and magic strings *)

V1HDR == "V1HDR"
V1PIX == "V1PIX"
V2HDR == "V2HDR"
V2PIX == "V2PIX"

\* b'\x00i\x00m\x00h\x00d\x00r'
V1HDR_MAGIC_BIG_ENDIAN == <<0, 105, 0, 109, 0, 104, 0, 100, 0, 114>>
\* b'\x00i\x00m\x00p\x00i\x00x'
V1PIX_MAGIC_BIG_ENDIAN == <<0, 105, 0, 109, 0, 112, 0, 105, 0, 120>>
\* b'i\x00m\x00h\x00d\x00r\x00'
V1HDR_MAGIC_LITTLE_ENDIAN == <<105, 0, 109, 0, 104, 0, 100, 0, 114, 0>>
\* b'i\x00m\x00p\x00i\x00x\x00'
V1PIX_MAGIC_LITTLE_ENDIAN == <<105, 0, 109, 0, 112, 0, 105, 0, 120, 0>>
\* b'imhv2'
V2HDR_MAGIC == <<105, 109, 104, 118, 50>>
\* b'impv2'
V2PIX_MAGIC == <<105, 109, 112, 118, 50>>

\* A plausible slip: the little-endian patterns tested against 'big' as the
\* big-endian ones are.
fileTypeSameTest(host, data) ==
    LET magic == PyTo(data, 10)
    IN  IF magic = V1HDR_MAGIC_BIG_ENDIAN THEN <<V1HDR, PyBool(host # "big")>>
        ELSE IF magic = V1PIX_MAGIC_BIG_ENDIAN THEN <<V1PIX, PyBool(host # "big")>>
        ELSE IF magic = V1HDR_MAGIC_LITTLE_ENDIAN THEN <<V1HDR, PyBool(host # "big")>>
        ELSE IF magic = V1PIX_MAGIC_LITTLE_ENDIAN THEN <<V1PIX, PyBool(host # "big")>>
        ELSE IF PyTo(magic, 5) = V2HDR_MAGIC THEN <<V2HDR, PyBool(host = "little")>>
        ELSE IF PyTo(magic, 5) = V2PIX_MAGIC THEN <<V2PIX, PyBool(host = "little")>>
        ELSE <<None, None>>

\* OIFImage.fileType on a host of byte order host: (type, swap).
fileType(host, data) ==
    LET magic == PyTo(data, 10)
    IN  IF magic = V1HDR_MAGIC_BIG_ENDIAN THEN <<V1HDR, PyBool(host # "big")>>
        ELSE IF magic = V1PIX_MAGIC_BIG_ENDIAN THEN <<V1PIX, PyBool(host # "big")>>
        ELSE IF magic = V1HDR_MAGIC_LITTLE_ENDIAN THEN <<V1HDR, PyBool(host # "little")>>
        ELSE IF magic = V1PIX_MAGIC_LITTLE_ENDIAN THEN <<V1PIX, PyBool(host # "little")>>
        ELSE IF PyTo(magic, 5) = V2HDR_MAGIC THEN <<V2HDR, PyBool(host = "little")>>
        ELSE IF PyTo(magic, 5) = V2PIX_MAGIC THEN <<V2PIX, PyBool(host = "little")>>
        ELSE <<None, None>>

-----------------------------------------------------------------------------
(* Bytes, integers and text *)

\* struct.unpack of one 'i' (signed, 32 bits) under format '>i' or '<i'.
UnpackInt(fmt, b) ==
    LET m == IF fmt = ">i" THEN b ELSE Reverse(b)
        top == IF m[1] >= 128 THEN m[1] - 256 ELSE m[1]
    IN  top * 16777216 + m[2] * 65536 + m[3] * 256 + m[4]

\* struct.unpack(ifmt + 'iiiiii', b): seven integers of the same byte order.
UnpackInts(fmt, b) == [k \in 1..7 |-> UnpackInt(fmt, SubSeq(b, 4 * k - 3, 4 * k))]

\* struct.unpack raises struct.error unless the buffer has the format's size.
StructFits(b, n) == Len(b) = 4 * n

\* bytes.replace(b'\x00', b'')
StripNulls(b) == SelectSeq(b, LAMBDA x : x # 0)

\* Offset of the first occurrence of sep in s, -1 if none (find).
Find(s, sep) ==
    LET at == {i \in 0..(Len(s) - Len(sep)) : SubSeq(s, i + 1, i + Len(sep)) = sep}
    IN  IF at = {} THEN -1 ELSE CHOOSE i \in at : \A j \in at : i <= j

\* s.split(sep): the pieces between the occurrences of sep, left to right.
RECURSIVE Split(_, _)
Split(s, sep) ==
    LET i == Find(s, sep)
    IN  IF i < 0 THEN <<s>>
        ELSE <<PyTo(s, i)>> \o Split(PyFrom(s, i + Len(sep)), sep)

\* s.split(sep)[0]
FirstPiece(s, sep) == IF Find(s, sep) < 0 THEN s ELSE PyTo(s, Find(s, sep))

\* The printable ASCII characters, codes 32 to 126 (the double quote and the
\* backslash and the backquote written #34, #92 and #96).
AsciiTable ==
    <<" ", "!", "#34", "#", "$", "%", "&", "'", "(", ")", "*", "+", ",", "-", ".", "/",
      "0", "1", "2", "3", "4", "5", "6", "7", "8", "9", ":", ";", "<", "=", ">", "?",
      "@", "A", "B", "C", "D", "E", "F", "G", "H", "I", "J", "K", "L", "M", "N", "O",
      "P", "Q", "R", "S", "T", "U", "V", "W", "X", "Y", "Z", "[", "#92", "]", "^", "_",
      "#96", "a", "b", "c", "d", "e", "f", "g", "h", "i", "j", "k", "l", "m", "n", "o",
      "p", "q", "r", "s", "t", "u", "v", "w", "x", "y", "z", "{", "|", "}", "~">>

\* The character of an ASCII code; a control character is written #<code>.
Chr(b) == IF b \in 32..126 THEN AsciiTable[b - 31] ELSE "#" \o ToString(b)

\* The code of a printable character.
Ord(c) == CHOOSE b \in 32..126 : AsciiTable[b - 31] = c

\* bytes.decode('utf-8') of ASCII text.  A byte above 127 is taken to be
\* undecodable (multi-byte sequences are outside the model's inputs).
Decodable(b) == \A i \in 1..Len(b) : b[i] < 128
Decode(b) == [i \in 1..Len(b) |-> Chr(b[i])]

-----------------------------------------------------------------------------
(* Paths: a path is kept split as os.path.dirname, the root and the        *)
(* extension of os.path.basename.                                          *)

Basename(p) == [root |-> p.root, extn |-> p.extn]
Splitext(b) == <<b.root, b.extn>>

-----------------------------------------------------------------------------
(* OIFHeader *)

\* 10 * (3600 * 24 * 365.25)
EPOCH_1980 == 315576000

\* The integer format chosen from the swap flag and the -s option.
IntFormat(host, force, swap) ==
    LET ifmt == IF host = "little" /\ Truthy(swap) THEN ">i" ELSE "<i"
    IN  IF force THEN (IF ifmt = ">i" THEN "<i" ELSE ">i") ELSE ifmt

\* OIFHeader.printHdr: prints under -d, reading attributes that only the
\* header branches of the constructor assign.
HdrPrintRaises(dbg, self) ==
    dbg /\ ~ ({"hdr", "pixtype", "date", "ndim", "dims", "pdims", "history"}
                \subseteq DOMAIN self)

\* The V1 branch of OIFHeader.__init__: the attributes it assigns, or the
\* exception it raises.  A buffer too short for a field makes struct.unpack
\* raise; the fields lie in increasing order but for the date, so the buffer
\* holds them all exactly when it holds the date.
HeaderV1Fields(ifmt, cont) ==
    LET hdr == PyTo(cont, 2052)
        userarea == StripNulls(PyFrom(cont, 2052))
        lines == Split(userarea, <<10>>)
        keywords == PyTo(lines, Len(lines) - 1)
        first == [hdr |-> hdr, userarea |-> userarea]
    IN  IF \E i \in 1..Len(keywords) : ~ Decodable(keywords[i])
        THEN [exc |-> "UnicodeDecodeError", set |-> first]
        ELSE IF ~ StructFits(PySlice(hdr, 108, 112), 1)
        THEN [exc |-> "struct.error", set |-> first]
        ELSE [exc |-> None,
              set |-> first @@
                [keywords |-> [i \in 1..Len(keywords) |-> Decode(keywords[i])],
                 title |-> StripNulls(FirstPiece(PySlice(hdr, 732, 888), <<0, 0>>)),
                 pixtype |-> UnpackInt(ifmt, PySlice(hdr, 16, 20)),
                 history |-> SelectSeq(StripNulls(PySlice(cont, 892, 2048)),
                                       LAMBDA x : x # 10),
                 ndim |-> UnpackInt(ifmt, PySlice(hdr, 20, 24)),
                 dims |-> UnpackInts(ifmt, PySlice(hdr, 24, 52)),
                 pdims |-> UnpackInts(ifmt, PySlice(hdr, 52, 80)),
                 date |-> UnpackInt(ifmt, PySlice(hdr, 108, 112)) + EPOCH_1980]]

\* The V2 branch of OIFHeader.__init__.
HeaderV2Fields(ifmt, cont) ==
    LET hdr == PyTo(cont, 2046)
        userarea == StripNulls(PyFrom(cont, 2046))
        keywords == Split(userarea, <<10>>)
        first == [hdr |-> hdr, userarea |-> userarea]
    IN  IF \E i \in 1..Len(keywords) : ~ Decodable(keywords[i])
        THEN [exc |-> "UnicodeDecodeError", set |-> first]
        ELSE IF ~ StructFits(PySlice(hdr, 106, 110), 1)
        THEN [exc |-> "struct.error", set |-> first]
        ELSE [exc |-> None,
              set |-> first @@
                [keywords |-> [i \in 1..Len(keywords) |-> Decode(keywords[i])],
                 title |-> StripNulls(PySlice(hdr, 638, 718)),
                 pixtype |-> UnpackInt(ifmt, PySlice(hdr, 10, 14)),
                 history |-> SelectSeq(StripNulls(PySlice(cont, 990, 2048)),
                                       LAMBDA x : x # 10),
                 ndim |-> UnpackInt(ifmt, PySlice(hdr, 18, 22)),
                 dims |-> UnpackInts(ifmt, PySlice(hdr, 22, 50)),
                 pdims |-> UnpackInts(ifmt, PySlice(hdr, 50, 78)),
                 date |-> UnpackInt(ifmt, PySlice(hdr, 106, 110)) + EPOCH_1980]]

\* OIFHeader.__init__(path) on a file of content cont: the object as the
\* constructor leaves it, and the exception it raises.
OIFHeaderInit(host, force, dbg, p, cont) ==
    LET base == Basename(p)
        named == [path |-> p, base |-> base, extn |-> Splitext(base)[2]]
        ft == fileType(host, cont)
        ifmt == IntFormat(host, force, ft[2])
        common == [content |-> cont, type |-> ft[1], swap |-> ft[2],
                   data |-> <<>>, userarea |-> <<>>, title |-> <<>>] @@ named
        Built(branch, self) ==
            IF named.extn # ".imh" THEN [exc |-> "Exception", self |-> named]
            ELSE IF branch.exc # None THEN [exc |-> branch.exc, self |-> self]
            ELSE IF HdrPrintRaises(dbg, self) THEN [exc |-> "AttributeError", self |-> self]
            ELSE [exc |-> None, self |-> self]
        Branch(branch) == Built(branch, branch.set @@ common)
    IN  Branch(IF ft[1] = V1HDR THEN HeaderV1Fields(ifmt, cont)
               ELSE IF ft[1] = V2HDR THEN HeaderV2Fields(ifmt, cont)
               ELSE [exc |-> None, set |-> <<>>])

-----------------------------------------------------------------------------
(* OIFPixfile *)

TY_SHORT == 3
TY_INT == 4
TY_LONG == 5
TY_REAL == 6
TY_DOUBLE == 7
TY_USHORT == 11

\* The numpy type string of each IRAF pixel type code.
pixtypes ==
    (TY_SHORT :> "i2") @@ (TY_USHORT :> "U2") @@ (TY_INT :> "i4") @@
    (TY_LONG :> "i4") @@ (TY_REAL :> "f4") @@ (TY_DOUBLE :> "f8")

oiftypes ==
    (TY_SHORT :> "short") @@ (TY_USHORT :> "ushort") @@ (TY_INT :> "int") @@
    (TY_LONG :> "long") @@ (TY_REAL :> "real") @@ (TY_DOUBLE :> "double")

\* Bytes per element of np.dtype(<order> + t).  'U2' is numpy's type of
\* strings of two UCS-4 characters.
ItemSize(t) ==
    CASE t = "i2" -> 2
      [] t = "i4" -> 4
      [] t = "f4" -> 4
      [] t = "f8" -> 8
      [] t = "U2" -> 8

\* A signed integer from its bytes, most significant first.
SignedInt(m) ==
    LET top == IF m[1] >= 128 THEN m[1] - 256 ELSE m[1]
    IN  IF Len(m) = 2 THEN top * 256 + m[2]
        ELSE top * 16777216 + m[2] * 65536 + m[3] * 256 + m[4]

\* One array element from its bytes in storage order, read in byte order
\* swap ('>' or '<').  An integer is its value; a float is kept as its bytes
\* most significant first; a 'U2' string as its two characters, each so.
Element(t, swap, b) ==
    LET msb(x) == IF swap = ">" THEN x ELSE Reverse(x)
    IN  CASE t \in {"i2", "i4"} -> SignedInt(msb(b))
          [] t \in {"f4", "f8"} -> [f |-> msb(b)]
          [] t = "U2" -> [U |-> <<msb(SubSeq(b, 1, 4)), msb(SubSeq(b, 5, 8))>>]

\* np.frombuffer(data, np.dtype(swap + t), -1, 0), for a length it accepts.
FromBuffer(data, t, swap) ==
    LET size == ItemSize(t)
    IN  [k \in 1..(Len(data) \div size) |->
            Element(t, swap, SubSeq(data, (k - 1) * size + 1, k * size))]

\* The byte order readPixels resolves for the pixel data: '>' or '<'.
PixelByteOrder(host, force, self) ==
    LET swap == IF self.type = V1PIX
                THEN (IF host = "little" /\ Truthy(self.swap) THEN ">" ELSE "<")
                ELSE (IF host = "little" /\ Truthy(self.swapped) THEN "<" ELSE ">")
    IN  IF force THEN (IF swap = ">" THEN "<" ELSE ">") ELSE swap

\* Length of the slice [:hi] of an axis of length n.
CropLen(n, hi) == SliceBound(hi, n)

\* A plausible slip: the reshape done without the transpose.
Pixels2DNoTranspose(raw, dims, pdims) ==
    LET w == Len(raw) \div pdims[2]
        phys == [j \in 1..pdims[2] |-> [i \in 1..w |-> raw[(j - 1) * w + i]]]
        rows == PyTo(phys, dims[1])
    IN  [shape |-> <<Len(rows), CropLen(w, dims[2])>>,
         elems |-> [i \in 1..Len(rows) |-> PyTo(rows[i], dims[2])]]

\* np.reshape(raw, (pdims[1], -1)).T cropped to [:dims[0], :dims[1]], for a
\* shape numpy accepts.  Element (i, j) of the transpose is element i of
\* row j of the reshaped matrix, whose rows have len(raw) / pdims[1] elements.
Pixels2D(raw, dims, pdims) ==
    LET w == Len(raw) \div pdims[2]
        phys == [i \in 1..w |-> [j \in 1..pdims[2] |-> raw[(j - 1) * w + i]]]
        rows == PyTo(phys, dims[1])
    IN  [shape |-> <<Len(rows), CropLen(pdims[2], dims[2])>>,
         elems |-> [i \in 1..Len(rows) |-> PyTo(rows[i], dims[2])]]

\* np.reshape rejects a first dimension that is not positive or does not
\* divide the number of elements.
ReshapeFits(n, p) == p > 0 /\ n % p = 0

\* Number of elements of an array.
Size(a) == IF Len(a.shape) = 1 THEN a.shape[1] ELSE a.shape[1] * a.shape[2]

\* np.min and np.max raise on an empty array and on an array of strings.
StatsRaise(self) == Size(self.pixels) = 0 \/ pixtypes[self.pixtype] = "U2"

\* A plausible slip: more than two dimensions read as a 2-D image.
ReadPixelsTruncating(host, force, dbg, self) ==
    IF self.type # V1PIX /\ "swapped" \notin DOMAIN self
    THEN [exc |-> "AttributeError", set |-> <<>>]
    ELSE IF self.pixtype \notin DOMAIN pixtypes
    THEN [exc |-> "KeyError", set |-> <<>>]
    ELSE
    LET t == pixtypes[self.pixtype]
        raw == FromBuffer(self.data, t, PixelByteOrder(host, force, self))
    IN  IF Len(self.data) % ItemSize(t) # 0 THEN [exc |-> "ValueError", set |-> <<>>]
        ELSE IF self.ndim = 1
        THEN [exc |-> None,
              set |-> [pixels |-> [shape |-> <<CropLen(Len(raw), self.dims[1])>>,
                                   elems |-> PyTo(raw, self.dims[1])]]]
        ELSE IF ~ ReshapeFits(Len(raw), self.pdims[2])
             THEN [exc |-> "ValueError", set |-> <<>>]
             ELSE [exc |-> None,
                   set |-> [pixels |-> Pixels2D(raw, self.dims, self.pdims)]]

\* OIFPixfile.readPixels: the attribute it assigns (pixels) or the exception
\* it raises.  Under -d it goes on to print the minimum and maximum.
ReadPixels(host, force, dbg, self) ==
    IF self.type # V1PIX /\ "swapped" \notin DOMAIN self
    THEN [exc |-> "AttributeError", set |-> <<>>]
    ELSE IF self.pixtype \notin DOMAIN pixtypes
    THEN [exc |-> "KeyError", set |-> <<>>]
    ELSE
    LET t == pixtypes[self.pixtype]
        raw == FromBuffer(self.data, t, PixelByteOrder(host, force, self))
        done(px) == IF dbg /\ StatsRaise([pixels |-> px, pixtype |-> self.pixtype])
                    THEN [exc |-> "ValueError", set |-> [pixels |-> px]]
                    ELSE [exc |-> None, set |-> [pixels |-> px]]
    IN  IF Len(self.data) % ItemSize(t) # 0 THEN [exc |-> "ValueError", set |-> <<>>]
        ELSE IF self.ndim = 1
        THEN done([shape |-> <<CropLen(Len(raw), self.dims[1])>>,
                   elems |-> PyTo(raw, self.dims[1])])
        ELSE IF self.ndim = 2
        THEN IF ~ ReshapeFits(Len(raw), self.pdims[2])
             THEN [exc |-> "ValueError", set |-> <<>>]
             ELSE done(Pixels2D(raw, self.dims, self.pdims))
        ELSE [exc |-> "Exception", set |-> <<>>]

\* The V1 branch of OIFPixfile.__init__.
PixfileV1Fields(ifmt, swap, cont) ==
    LET hdr == PyTo(cont, 1024)
    IN  IF ~ StructFits(PySlice(hdr, 52, 80), 7)
        THEN [exc |-> "struct.error", set |-> [hdr |-> hdr, swapped |-> swap]]
        ELSE [exc |-> None,
              set |-> [hdr |-> hdr,
                       swapped |-> swap,
                       pixtype |-> UnpackInt(ifmt, PySlice(hdr, 16, 20)),
                       ndim |-> UnpackInt(ifmt, PySlice(hdr, 20, 24)),
                       dims |-> UnpackInts(ifmt, PySlice(hdr, 24, 52)),
                       pdims |-> UnpackInts(ifmt, PySlice(hdr, 52, 80)),
                       data |-> PyFrom(cont, 1024)]]

\* The V2 branch of OIFPixfile.__init__.
PixfileV2Fields(ifmt, cont) ==
    LET hdr == PyTo(cont, 2048)
    IN  IF ~ StructFits(PySlice(hdr, 50, 78), 7)
        THEN [exc |-> "struct.error", set |-> [hdr |-> hdr]]
        ELSE [exc |-> None,
              set |-> [hdr |-> hdr,
                       swapped |-> PyBool(UnpackInt(ifmt, PySlice(hdr, 14, 18)) = 1),
                       pixtype |-> UnpackInt(ifmt, PySlice(hdr, 10, 14)),
                       ndim |-> UnpackInt(ifmt, PySlice(hdr, 18, 22)),
                       dims |-> UnpackInts(ifmt, PySlice(hdr, 22, 50)),
                       pdims |-> UnpackInts(ifmt, PySlice(hdr, 50, 78)),
                       data |-> PyFrom(cont, 2048)]]

\* OIFPixfile.__init__(path) on a file of content cont: the object as the
\* constructor leaves it, and the exception it raises.  printHdr reads only
\* attributes that are assigned whenever readPixels has returned.
OIFPixfileInit(host, force, dbg, p, cont) ==
    LET base == Basename(p)
        named == [path |-> p, base |-> base, extn |-> Splitext(base)[2]]
        ft == fileType(host, cont)
        ifmt == IntFormat(host, force, ft[2])
        common == [content |-> cont, type |-> ft[1], swap |-> ft[2],
                   data |-> <<>>] @@ named
        Built(branch, fields, read) ==
            IF named.extn # ".pix" THEN [exc |-> "Exception", self |-> named]
            ELSE IF branch.exc # None THEN [exc |-> branch.exc, self |-> fields]
            ELSE [exc |-> read.exc, self |-> read.set @@ fields]
        Read(branch, fields) == Built(branch, fields, ReadPixels(host, force, dbg, fields))
        Branch(branch) == Read(branch, branch.set @@ common)
    IN  Branch(IF ft[1] = V1PIX THEN PixfileV1Fields(ifmt, ft[2], cont)
               ELSE IF ft[1] = V2PIX THEN PixfileV2Fields(ifmt, cont)
               ELSE [exc |-> None, set |-> <<>>])

-----------------------------------------------------------------------------
(* Text operations of Python's str *)

Whitespace == {" ", "#9", "#10", "#11", "#12", "#13", "#28", "#29", "#30", "#31"}
IsDigit(c) == c \in {"0", "1", "2", "3", "4", "5", "6", "7", "8", "9"}
IsUpper(c) == \E b \in 65..90 : Chr(b) = c
IsLetter(c) == \E b \in (65..90) \cup (97..122) : Chr(b) = c

\* s.strip(chars): s with its leading and trailing characters of chars removed.
StripChars(s, chars) ==
    LET keep == {i \in 1..Len(s) : s[i] \notin chars}
    IN  IF keep = {} THEN <<>>
        ELSE SubSeq(s, CHOOSE i \in keep : \A j \in keep : i <= j,
                       CHOOSE i \in keep : \A j \in keep : i >= j)

\* s.strip()
Strip(s) == StripChars(s, Whitespace)

\* s.strip("'")
StripQuotes(s) == StripChars(s, {"'"})

\* s.replace(ch, '')
Remove(s, ch) == SelectSeq(s, LAMBDA c : c # ch)

\* s.count(ch)
Count(s, ch) == Cardinality({i \in 1..Len(s) : s[i] = ch})

\* s.lower()
Lower(s) == [i \in 1..Len(s) |-> IF IsUpper(s[i]) THEN Chr(Ord(s[i]) + 32) ELSE s[i]]

\* s[i] for an index Python accepts (-len(s) <= i < len(s)).
PyIndex(s, i) == IF i < 0 THEN s[Len(s) + i + 1] ELSE s[i + 1]

-----------------------------------------------------------------------------
(* ast.literal_eval, int() and float() on a keyword value *)

RECURSIVE DigitsValue(_)
DigitsValue(s) ==
    IF s = <<>> THEN 0
    ELSE 10 * DigitsValue(SubSeq(s, 1, Len(s) - 1)) + (Ord(s[Len(s)]) - 48)

IsDigits(s) == Len(s) > 0 /\ \A i \in 1..Len(s) : IsDigit(s[i])

Signed(v) == Len(v) > 0 /\ v[1] \in {"+", "-"}
Unsigned(v) == IF Signed(v) THEN Tail(v) ELSE v

\* A decimal integer literal: digits without a leading zero, or zeros only.
IsDecInteger(u) ==
    IsDigits(u) /\ (u[1] # "0" \/ \A i \in 1..Len(u) : u[i] = "0")

\* A float literal without exponent: digits around one point, at least one.
IsPointFloat(u) ==
    /\ Count(u, ".") = 1
    /\ Len(u) >= 2
    /\ \A i \in 1..Len(u) : IsDigit(u[i]) \/ u[i] = "."

\* A single-quoted string literal without escapes.
IsQuoted(v) ==
    /\ Len(v) >= 2
    /\ v[1] = "'" /\ v[Len(v)] = "'"
    /\ \A i \in 2..(Len(v) - 1) : v[i] \notin {"'", "#92", "#10", "#13"}

\* An identifier.
IsName(v) ==
    /\ Len(v) > 0
    /\ ~ IsDigit(v[1])
    /\ \A i \in 1..Len(v) : IsLetter(v[i]) \/ IsDigit(v[i]) \/ v[i] = "_"

\* The type of ast.literal_eval(v), or the exception it raises.  The
\* classification is that of Python for the empty string, signed decimal
\* integers, signed floats without exponent, single-quoted strings without
\* escapes, identifiers, and text that is none of these and holds no
\* bracket, double quote, comma, or digit followed by a letter or underscore.
LiteralEval(v) ==
    IF v = <<>> THEN "SyntaxError"
    ELSE IF IsDecInteger(Unsigned(v)) THEN "int"
    ELSE IF IsPointFloat(Unsigned(v)) THEN "float"
    ELSE IF IsQuoted(v) THEN "str"
    ELSE IF v = <<"N", "o", "n", "e">> THEN "NoneType"
    ELSE IF v \in {<<"T", "r", "u", "e">>, <<"F", "a", "l", "s", "e">>} THEN "bool"
    ELSE IF IsName(v) THEN "ValueError"
    ELSE "SyntaxError"

\* int(v) of a signed decimal integer.
IntValue(v) ==
    [t |-> "int",
     n |-> IF v[1] = "-" THEN 0 - DigitsValue(Unsigned(v)) ELSE DigitsValue(Unsigned(v))]

\* float(v) of a signed float without exponent: its digits with the trailing
\* zeros of the fraction dropped, and the number of fraction digits left.
FloatValue(v) ==
    LET u == Unsigned(v)
        point == Find(u, <<".">>)
        frac == StripChars(<<"1">> \o PyFrom(u, point + 1), {"0"})
        digits == PyTo(u, point) \o Tail(frac)
    IN  [t |-> "float",
         neg |-> v[1] = "-" /\ DigitsValue(digits) # 0,
         digits |-> DigitsValue(digits),
         frac |-> Len(frac) - 1]

StrValue(s) == [t |-> "str", s |-> s]

-----------------------------------------------------------------------------
(* OIFImage.toFITS *)

HISTORY == <<"H", "I", "S", "T", "O", "R", "Y">>
COMMENT == <<"C", "O", "M", "M", "E", "N", "T">>

\* The words toFITS leaves to the FITS writer as booleans.
BoolWords == {<<"t">>, <<"f">>, <<"t", "r", "u", "e">>, <<"f", "a", "l", "s", "e">>}

\* The split of a keyword line into key, value text and comment: the body of
\* the loop of toFITS up to the type determination.
SplitKeyword(key) ==
    LET st == IF PyTo(key, 7) \in {HISTORY, COMMENT} THEN 7 ELSE 8
        k == Remove(Strip(PyTo(key, st)), "/")
        rest == PyFrom(key, st + 1)
    IN  IF Count(rest, "'") = 2
        THEN [exc |-> None, k |-> k,
              v |-> <<"'">> \o Split(rest, <<"'">>)[2] \o <<"'">>,
              c |-> Strip(<<PyIndex(key, Find(rest, <<"/">>))>>)]
        ELSE IF Find(key, <<"/">>) > 0
        THEN IF Len(Split(PyFrom(key, st), <<"/">>)) < 2
             THEN [exc |-> "IndexError", k |-> k, v |-> <<>>, c |-> <<>>]
             ELSE [exc |-> None, k |-> k,
                   v |-> Strip(Split(rest, <<"/">>)[1]),
                   c |-> Strip(Split(PyFrom(key, st), <<"/">>)[2])]
        ELSE [exc |-> None, k |-> k, v |-> Strip(rest), c |-> <<>>]

\* The value of a keyword after the type determination, or the exception
\* ast.literal_eval raises.
TypedValue(key, v) ==
    IF PyTo(key, 7) \in {HISTORY, COMMENT} \/ Lower(v) \in BoolWords
    THEN [exc |-> None, v |-> StrValue(v)]
    ELSE LET t == LiteralEval(v)
         IN  IF t \in {"SyntaxError", "ValueError"} THEN [exc |-> t, v |-> StrValue(v)]
             ELSE IF t = "int" THEN [exc |-> None, v |-> IntValue(v)]
             ELSE IF t = "float" THEN [exc |-> None, v |-> FloatValue(v)]
             ELSE [exc |-> None, v |-> StrValue(StripQuotes(v))]

\* One iteration of the keyword loop of toFITS on line key: the header
\* after it and the exception raised.  hdu.header[k] = (v, c) is kept as the
\* card (k, v, c) appended to the header.
TranslateKeyword(header, key) ==
    IF Strip(key) = <<>> THEN [exc |-> None, header |-> header]
    ELSE LET Card(s, tv) ==
                 IF s.exc # None THEN [exc |-> s.exc, header |-> header]
                 ELSE IF tv.exc # None THEN [exc |-> tv.exc, header |-> header]
                 ELSE [exc |-> None,
                       header |-> Append(header, [k |-> s.k, v |-> tv.v, c |-> s.c])]
             Typed(s) == Card(s, TypedValue(key, s.v))
         IN  Typed(SplitKeyword(key))

\* The keyword loop of toFITS over the lines not yet translated.
RECURSIVE TranslateKeywords(_, _)
TranslateKeywords(header, keywords) ==
    IF keywords = <<>> THEN [exc |-> None, header |-> header]
    ELSE LET Rest(one) == IF one.exc # None THEN one
                          ELSE TranslateKeywords(one.header, Tail(keywords))
         IN  Rest(TranslateKeyword(header, Head(keywords)))

\* The transpose of a 2-D array.
Transpose(a) ==
    [shape |-> <<a.shape[2], a.shape[1]>>,
     elems |-> [j \in 1..a.shape[2] |-> [i \in 1..a.shape[1] |-> a.elems[i][j]]]]

\* hdu.header.add_history('New copy of ' + base)
HistoryCard(base) ==
    [k |-> HISTORY, v |-> StrValue(<<"New copy of ", base.root, base.extn>>), c |-> <<>>]

\* OIFImage.toFITS(path) of an image of header object hdr and pixel object
\* pix: the HDU built, whether it was written to path, and the exception raised.
ToFITS(hdr, pix, vrb, lst) ==
    LET Written(data, cards, full) ==
            IF "keywords" \notin DOMAIN hdr
            THEN [exc |-> "AttributeError", hdu |-> [data |-> data, header |-> <<>>],
                  wrote |-> FALSE]
            ELSE IF cards.exc # None
            THEN [exc |-> cards.exc, hdu |-> [data |-> data, header |-> cards.header],
                  wrote |-> FALSE]
            ELSE IF (vrb \/ lst) /\ ~ Decodable(hdr.title)
            THEN [exc |-> "UnicodeDecodeError", hdu |-> full, wrote |-> FALSE]
            ELSE IF (vrb \/ lst) /\ StatsRaise(pix)
            THEN [exc |-> "ValueError", hdu |-> full, wrote |-> FALSE]
            ELSE [exc |-> None, hdu |-> full, wrote |-> ~ lst]
        Translated(data, cards) ==
            Written(data, cards,
                    [data |-> data, header |-> Append(cards.header, HistoryCard(hdr.base))])
    IN  Translated(IF pix.ndim = 1 THEN pix.pixels ELSE Transpose(pix.pixels),
                   TranslateKeywords(<<>>, hdr.keywords))

-----------------------------------------------------------------------------
(* Files on disk, as the inputs of the model *)

\* The four bytes of n (0 <= n < 2^31) in byte order "big" or "little".
Bytes4(order, n) ==
    LET be == <<n \div 16777216, (n \div 65536) % 256, (n \div 256) % 256, n % 256>>
    IN  IF order = "big" THEN be ELSE Reverse(be)

\* The two bytes of n (0 <= n < 2^15) in byte order "big" or "little".
Bytes2(order, n) ==
    IF order = "big" THEN <<n \div 256, n % 256>> ELSE <<n % 256, n \div 256>>

\* The seven stored axis lengths of an image of axes (a, b).
Axes(order, a, b) ==
    Concat([k \in 1..7 |-> Bytes4(order, IF k = 1 THEN a ELSE IF k = 2 THEN b ELSE 1)])

\* Text as bytes, one byte per character.
Encode(text) == [i \in 1..Len(text) |-> Ord(text[i])]

\* Text as an SPP string: two bytes per character, in byte order order.
Spp(order, b) ==
    Concat([i \in 1..Len(b) |-> IF order = "big" THEN <<0, b[i]>> ELSE <<b[i], 0>>])

\* The bytes of keyword lines, each ended by a newline.
Lines(ls) == Concat([i \in 1..Len(ls) |-> Encode(ls[i]) \o <<10>>])

\* b followed by zeros up to length n.
PadTo(b, n) == b \o Zeros(n - Len(b))

\* A V1 header file: the fields at the offsets OIFHeader.__init__ reads.
V1HeaderFile(magic, order, pixtype, ndim, dims, pdims, date, title, lines) ==
    PadTo(PadTo(PadTo(PadTo(magic, 16)
                  \o Bytes4(order, pixtype) \o Bytes4(order, ndim)
                  \o Axes(order, dims[1], dims[2])
                  \o Axes(order, pdims[1], pdims[2]), 108)
            \o Bytes4(order, date), 732)
          \o Spp(order, Encode(title)), 2052)
    \o Spp(order, Lines(lines))

\* A V2 header file.
V2HeaderFile(magic, order, pixtype, ndim, dims, pdims, date, title, lines) ==
    PadTo(PadTo(PadTo(PadTo(magic, 10)
                  \o Bytes4(order, pixtype) \o Zeros(4) \o Bytes4(order, ndim)
                  \o Axes(order, dims[1], dims[2])
                  \o Axes(order, pdims[1], pdims[2]), 106)
            \o Bytes4(order, date), 638)
          \o Encode(title), 2046)
    \o Lines(lines)

\* n 16-bit pixels of values 0 .. n-1 in byte order order.
Ramp(order, n) == Concat([k \in 1..n |-> Bytes2(order, k - 1)])

\* A V1 pixel file.
V1PixFile(magic, order, pixtype, ndim, dims, pdims, data) ==
    PadTo(PadTo(magic, 16)
            \o Bytes4(order, pixtype) \o Bytes4(order, ndim)
            \o Axes(order, dims[1], dims[2])
            \o Axes(order, pdims[1], pdims[2]), 1024)
    \o data

\* A V2 pixel file, with the four bytes of its swap indicator.
V2PixFile(magic, order, pixtype, indicator, ndim, dims, pdims, data) ==
    PadTo(PadTo(magic, 10)
            \o Bytes4(order, pixtype) \o indicator \o Bytes4(order, ndim)
            \o Axes(order, dims[1], dims[2])
            \o Axes(order, pdims[1], pdims[2]), 2048)
    \o data

V1HdrMagic(order) ==
    IF order = "big" THEN V1HDR_MAGIC_BIG_ENDIAN ELSE V1HDR_MAGIC_LITTLE_ENDIAN
V1PixMagic(order) ==
    IF order = "big" THEN V1PIX_MAGIC_BIG_ENDIAN ELSE V1PIX_MAGIC_LITTLE_ENDIAN

-----------------------------------------------------------------------------
(* fileType on its own: a buffer is drawn, then classified *)

Hosts == {"big", "little"}

\* The bytes the magic strings are made of.
MagicBytes == {0, 105, 109, 104, 100, 114, 112, 120, 118, 50}

\* Ten-byte prefixes: the six magic strings (the V2 ones followed by five
\* more bytes) and each of them with one byte replaced.
MagicPrefixes ==
    LET exact == {V1HDR_MAGIC_BIG_ENDIAN, V1PIX_MAGIC_BIG_ENDIAN,
                  V1HDR_MAGIC_LITTLE_ENDIAN, V1PIX_MAGIC_LITTLE_ENDIAN,
                  V2HDR_MAGIC \o Zeros(5), V2PIX_MAGIC \o Zeros(5),
                  V2HDR_MAGIC \o <<0, 105, 0, 109, 0>>}
    IN  exact \cup {[p EXCEPT ![i] = b] : p \in exact, i \in 1..10, b \in MagicBytes}

RECURSIVE SeqsUpTo(_, _)
SeqsUpTo(S, n) ==
    IF n = 0 THEN {<<>>}
    ELSE LET shorter == SeqsUpTo(S, n - 1)
         IN  shorter \cup {Append(s, x) : s \in {t \in shorter : Len(t) = n - 1}, x \in S}

\* The buffers given to fileType: a prefix cut short, or whole and followed
\* by up to MaxTail bytes.
MagicBuffers ==
    {PyTo(p, n) : p \in MagicPrefixes, n \in {0, 4, 5, 9}}
        \cup {p \o t : p \in MagicPrefixes, t \in SeqsUpTo({0, 105}, MaxTail)}

NoPath == [dir |-> "", root |-> "", extn |-> ""]

InitMagic ==
    /\ byteorder \in Hosts
    /\ content \in MagicBuffers
    /\ pc = "fileType"
    /\ ret = <<>>
    /\ force_swap = FALSE /\ debug = FALSE /\ verbose = FALSE /\ list_only = FALSE
    /\ path = NoPath /\ hdrfile = NoObject /\ pixfile = NoObject /\ hdu = NoObject
    /\ exc = None /\ files = <<>> /\ fi = 0 /\ written = <<>> /\ disk = {}

CallFileType ==
    /\ pc = "fileType"
    /\ ret' = fileType(byteorder, content)
    /\ pc' = "done"
    /\ UNCHANGED <<byteorder, force_swap, debug, verbose, list_only, path, content,
                   hdrfile, pixfile, hdu, exc, files, fi, written, disk>>

NextMagic == CallFileType

SpecMagic == InitMagic /\ [][NextMagic]_vars

-----------------------------------------------------------------------------
(* Keyword lines and other text used as inputs *)

\* "OBJECT  = 'M31'            / target name"
LineObject ==
    <<"O", "B", "J", "E", "C", "T", " ", " ", "=", " ", "'", "M", "3", "1",
      "'", " ", " ", " ", " ", " ", " ", " ", " ", " ", " ", " ", " ", "/",
      " ", "t", "a", "r", "g", "e", "t", " ", "n", "a", "m", "e">>

\* "OBSERVER= 'Hubble'"
LineObserver ==
    <<"O", "B", "S", "E", "R", "V", "E", "R", "=", " ", "'", "H", "u", "b",
      "b", "l", "e", "'">>

\* "EXPTIME =      120.5"
LineExptime ==
    <<"E", "X", "P", "T", "I", "M", "E", " ", "=", " ", " ", " ", " ", " ",
      " ", "1", "2", "0", ".", "5">>

\* "NAXIS1  = 512 / width"
LineNaxis ==
    <<"N", "A", "X", "I", "S", "1", " ", " ", "=", " ", "5", "1", "2", " ",
      "/", " ", "w", "i", "d", "t", "h">>

\* "COUNT   = -5"
LineCount ==
    <<"C", "O", "U", "N", "T", " ", " ", " ", "=", " ", "-", "5">>

\* "FLAG    = T / set"
LineFlag ==
    <<"F", "L", "A", "G", " ", " ", " ", " ", "=", " ", "T", " ", "/", " ",
      "s", "e", "t">>

\* "FILTER  = V"
LineFilter ==
    <<"F", "I", "L", "T", "E", "R", " ", " ", "=", " ", "V">>

\* "EMPTY   ="
LineEmpty ==
    <<"E", "M", "P", "T", "Y", " ", " ", " ", "=">>

\* "NOTHING = None"
LineNone ==
    <<"N", "O", "T", "H", "I", "N", "G", " ", "=", " ", "N", "o", "n", "e">>

\* "A/B     = 5"
LineSlashKey ==
    <<"A", "/", "B", " ", " ", " ", " ", " ", "=", " ", "5">>

\* "        "
LineBlank ==
    <<" ", " ", " ", " ", " ", " ", " ", " ">>

\* "HISTORY flat fielded"
LineHistoryPlain ==
    <<"H", "I", "S", "T", "O", "R", "Y", " ", "f", "l", "a", "t", " ", "f",
      "i", "e", "l", "d", "e", "d">>

\* "HISTORY made by /usr/bin/ccdproc"
LineHistoryPath ==
    <<"H", "I", "S", "T", "O", "R", "Y", " ", "m", "a", "d", "e", " ", "b",
      "y", " ", "/", "u", "s", "r", "/", "b", "i", "n", "/", "c", "c", "d",
      "p", "r", "o", "c">>

\* "HISTORY object 'M31' renamed"
LineHistoryQuoted ==
    <<"H", "I", "S", "T", "O", "R", "Y", " ", "o", "b", "j", "e", "c", "t",
      " ", "'", "M", "3", "1", "'", " ", "r", "e", "n", "a", "m", "e", "d">>

\* "COMMENT 42"
LineCommentNumber ==
    <<"C", "O", "M", "M", "E", "N", "T", " ", "4", "2">>

\* "COMMENT true"
LineCommentBool ==
    <<"C", "O", "M", "M", "E", "N", "T", " ", "t", "r", "u", "e">>

\* "target name"
TextTargetName ==
    <<"t", "a", "r", "g", "e", "t", " ", "n", "a", "m", "e">>

\* "OBJECT"
TextOBJECT ==
    <<"O", "B", "J", "E", "C", "T">>

\* "'M31'"
TextQuotedM31 ==
    <<"'", "M", "3", "1", "'">>

\* "m51"
TextM51 ==
    <<"m", "5", "1">>

-----------------------------------------------------------------------------
(* OIFHeader on its own: a file is drawn, then the constructor runs *)

\* Largest axis length of the images drawn.
MaxDim == 4

\* Seconds from the IRAF epoch stored in the headers drawn.
SomeDate == 24 * 3600

ImhPath == [dir |-> "", root |-> "m51", extn |-> ".imh"]
PixPath == [dir |-> "./", root |-> "m51", extn |-> ".pix"]

\* Header files of both versions and byte orders.
HeaderFiles ==
    {V1HeaderFile(V1HdrMagic(o), o, t, n, <<a, a - 1>>, <<a, a>>, SomeDate, TextM51,
                  <<LineNaxis, LineHistoryPlain>>) :
        o \in Hosts, t \in {TY_SHORT, TY_REAL}, n \in 1..2, a \in 2..MaxDim}
    \cup
    {V2HeaderFile(V2HDR_MAGIC, o, t, n, <<a, a - 1>>, <<a, a>>, SomeDate, TextM51,
                  <<LineNaxis, LineHistoryPlain>>) :
        o \in Hosts, t \in {TY_SHORT, TY_REAL}, n \in 1..2, a \in 2..MaxDim}

\* Files that are no header: pixel files, files of no known magic, and an
\* empty file.
NonHeaderFiles ==
    {V1PixFile(V1PixMagic(o), o, TY_SHORT, 2, <<2, 2>>, <<2, 2>>, Ramp(o, 4)) : o \in Hosts}
    \cup {V2PixFile(V2PIX_MAGIC, "big", TY_SHORT, Zeros(4), 2, <<2, 2>>, <<2, 2>>,
                    Ramp("big", 4))}
    \cup {Zeros(2052), <<>>, PadTo(Encode(TextOBJECT), 2052)}

\* Header files cut short of their fixed fields.
ShortHeaderFiles ==
    {PyTo(V1HeaderFile(V1HdrMagic(o), o, TY_SHORT, 2, <<2, 2>>, <<2, 2>>, SomeDate,
                       TextM51, <<>>), 100) : o \in Hosts}
    \cup {PyTo(V2HeaderFile(V2HDR_MAGIC, "big", TY_SHORT, 2, <<2, 2>>, <<2, 2>>, SomeDate,
                            TextM51, <<>>), 100)}

InitHdr ==
    /\ byteorder \in Hosts
    /\ force_swap \in BOOLEAN
    /\ debug \in BOOLEAN
    /\ path \in {ImhPath, PixPath}
    /\ content \in HeaderFiles \cup NonHeaderFiles \cup ShortHeaderFiles
    /\ pc = "OIFHeader"
    /\ verbose = FALSE /\ list_only = FALSE
    /\ ret = <<>> /\ hdrfile = NoObject /\ pixfile = NoObject /\ hdu = NoObject
    /\ exc = None /\ files = <<>> /\ fi = 0 /\ written = <<>> /\ disk = {}

ConstructHeader ==
    /\ pc = "OIFHeader"
    /\ LET Return(r) == hdrfile' = r.self /\ exc' = r.exc
       IN  Return(OIFHeaderInit(byteorder, force_swap, debug, path, content))
    /\ pc' = "done"
    /\ UNCHANGED <<byteorder, force_swap, debug, verbose, list_only, path, content,
                   ret, pixfile, hdu, files, fi, written, disk>>

NextHdr == ConstructHeader

SpecHdr == InitHdr /\ [][NextHdr]_vars

-----------------------------------------------------------------------------
(* OIFPixfile on its own: a file is drawn, then the constructor runs *)

\* The four bytes stored as the swap indicator of a V2 pixel file: 0, and 1
\* in either byte order.
Indicators == {Bytes4("big", 0), Bytes4("big", 1), Bytes4("little", 1)}

\* Pixel files of 16-bit pixels whose data fill the physical axes (pw, ph)
\* with the values 0, 1, ... and whose logical axes (lw, lh) lie within them.
ShortPixFiles ==
    {V1PixFile(V1PixMagic(o), o, TY_SHORT, n, <<lw, lh>>, <<pw, ph>>, Ramp(o, pw * ph)) :
        o \in Hosts, n \in 1..3, pw \in 1..MaxDim, ph \in 1..MaxDim,
        lw \in 0..MaxDim, lh \in 0..MaxDim}
    \cup
    {V2PixFile(V2PIX_MAGIC, "big", TY_SHORT, ind, n, <<lw, lh>>, <<pw, ph>>,
               Ramp("big", pw * ph)) :
        ind \in Indicators, n \in 1..3, pw \in 1..MaxDim, ph \in 1..MaxDim,
        lw \in 0..MaxDim, lh \in 0..MaxDim}

\* Pixel data of 0, 7, 12 and 32 bytes.
SomeData(o, d) ==
    CASE d = 1 -> <<>>
      [] d = 2 -> Ramp(o, 3) \o <<7>>
      [] d = 3 -> Ramp(o, 6)
      [] d = 4 -> Ramp(o, 16)

\* Pixel files of the other pixel types, of an unknown type code, of data
\* that do not fill the physical axes, and files that are no pixel file.
OtherPixFiles ==
    {V1PixFile(V1PixMagic(o), o, t, n, <<2, 1>>, <<2, 2>>, SomeData(o, d)) :
        o \in Hosts, t \in {TY_SHORT, TY_INT, TY_LONG, TY_REAL, TY_DOUBLE, TY_USHORT, 99},
        n \in 0..3, d \in 1..4}
    \cup
    {V2PixFile(V2PIX_MAGIC, o, t, ind, n, <<2, 1>>, <<2, 2>>, Ramp(o, 16)) :
        o \in Hosts, t \in {TY_INT, TY_USHORT, 99}, ind \in Indicators, n \in 0..3}
    \cup
    {PyTo(V1PixFile(V1PixMagic(o), o, TY_SHORT, 2, <<2, 2>>, <<2, 2>>, <<>>), 60) :
        o \in Hosts}
    \cup
    {V1HeaderFile(V1HdrMagic(o), o, TY_SHORT, 2, <<2, 2>>, <<2, 2>>, SomeDate, TextM51,
                  <<LineNaxis>>) : o \in Hosts}
    \cup {Zeros(1024), <<>>}

InitPix ==
    /\ byteorder \in Hosts
    /\ force_swap \in BOOLEAN
    /\ \/ /\ debug = FALSE
          /\ path = PixPath
          /\ content \in ShortPixFiles
       \/ /\ debug \in BOOLEAN
          /\ path \in {PixPath, ImhPath}
          /\ content \in OtherPixFiles
    /\ pc = "OIFPixfile"
    /\ verbose = FALSE /\ list_only = FALSE
    /\ ret = <<>> /\ hdrfile = NoObject /\ pixfile = NoObject /\ hdu = NoObject
    /\ exc = None /\ files = <<>> /\ fi = 0 /\ written = <<>> /\ disk = {}

ConstructPixfile ==
    /\ pc = "OIFPixfile"
    /\ LET Return(r) == pixfile' = r.self /\ exc' = r.exc
       IN  Return(OIFPixfileInit(byteorder, force_swap, debug, path, content))
    /\ pc' = "done"
    /\ UNCHANGED <<byteorder, force_swap, debug, verbose, list_only, path, content,
                   ret, hdrfile, hdu, files, fi, written, disk>>

NextPix == ConstructPixfile

SpecPix == InitPix /\ [][NextPix]_vars

-----------------------------------------------------------------------------
(* toFITS on its own: an image is constructed from a header file holding   *)
(* the keyword lines drawn and from a pixel file, then toFITS runs         *)

\* Longest list of keyword lines drawn.
MaxKeywords == 2

KeywordLines ==
    {LineObject, LineObserver, LineExptime, LineNaxis, LineCount, LineFlag,
     LineFilter, LineEmpty, LineNone, LineSlashKey, LineBlank, LineHistoryPlain,
     LineHistoryPath, LineHistoryQuoted, LineCommentNumber, LineCommentBool}

\* The header file of an image of 16-bit pixels with keyword lines ls:
\* little-endian V1 (version 1) or big-endian V2 (version 2).
ImageHeaderFile(version, ndim, dims, pdims, ls) ==
    IF version = 1
    THEN V1HeaderFile(V1HdrMagic("little"), "little", TY_SHORT, ndim, dims, pdims,
                      SomeDate, TextM51, ls)
    ELSE V2HeaderFile(V2HDR_MAGIC, "big", TY_SHORT, ndim, dims, pdims,
                      SomeDate, TextM51, ls)

\* Its pixel file.
ImagePixFile(version, ndim, dims, pdims) ==
    IF version = 1
    THEN V1PixFile(V1PixMagic("little"), "little", TY_SHORT, ndim, dims, pdims,
                   Ramp("little", pdims[1] * pdims[2]))
    ELSE V2PixFile(V2PIX_MAGIC, "big", TY_SHORT, Bytes4("big", 0), ndim, dims, pdims,
                   Ramp("big", pdims[1] * pdims[2]))

\* The shapes of the images drawn: (ndim, dims, pdims).
ImageShapes == {<<1, <<3, 1>>, <<4, 1>>>>, <<2, <<2, 1>>, <<2, 2>>>>, <<2, <<0, 0>>, <<2, 2>>>>}

FitsPath(root) == [dir |-> "", root |-> root, extn |-> ".fits"]

InitFITS ==
    /\ byteorder \in Hosts
    /\ force_swap = FALSE /\ debug = FALSE
    /\ \E version \in 1..2, shape \in ImageShapes,
          ls \in SeqsUpTo(KeywordLines, MaxKeywords) :
          LET Image(h, p) ==
                  /\ h.exc = None /\ p.exc = None
                  /\ hdrfile = h.self
                  /\ pixfile = p.self
          IN  Image(OIFHeaderInit(byteorder, force_swap, debug, ImhPath,
                        ImageHeaderFile(version, shape[1], shape[2], shape[3], ls)),
                    OIFPixfileInit(byteorder, force_swap, debug, PixPath,
                        ImagePixFile(version, shape[1], shape[2], shape[3])))
    /\ verbose \in BOOLEAN
    /\ list_only \in BOOLEAN
    /\ path = FitsPath("m51")
    /\ pc = "toFITS"
    /\ content = <<>> /\ ret = <<>> /\ hdu = NoObject
    /\ exc = None /\ files = <<>> /\ fi = 0 /\ written = <<>> /\ disk = {}

CallToFITS ==
    /\ pc = "toFITS"
    /\ LET Return(r) ==
               /\ hdu' = r.hdu
               /\ exc' = r.exc
               /\ written' = IF r.wrote THEN Append(written, path) ELSE written
       IN  Return(ToFITS(hdrfile, pixfile, verbose, list_only))
    /\ pc' = "done"
    /\ UNCHANGED <<byteorder, force_swap, debug, verbose, list_only, path, content,
                   ret, hdrfile, pixfile, files, fi, disk>>

NextFITS == CallToFITS

SpecFITS == InitFITS /\ [][NextFITS]_vars

-----------------------------------------------------------------------------
(* The driver: the loop of __main__ over the input files *)

\* Longest list of input files drawn.
MaxFiles == 2

Name(root, extn) == [root |-> root, extn |-> extn]

\* The files there may be on disk, by name, with their contents:
\*   m51    a little-endian V1 image, 4 x 3 cropped to 3 x 2
\*   ngc    a big-endian V2 image, 1-D
\*   cube   a little-endian V1 image of ndim 3
\*   hyper  a big-endian V2 image of ndim 4
\*   junk   a header file of no known magic, with a good pixel file
\*   lone   a header file without pixel file
\*   filt   an image with the keyword line FILTER  = V
\*   gone   a pixel file without header file
\*   notes  a text file
FS ==
    (Name("m51", ".imh") :> ImageHeaderFile(1, 2, <<3, 2>>, <<4, 3>>, <<LineNaxis, LineHistoryPath>>))
    @@ (Name("m51", ".pix") :> ImagePixFile(1, 2, <<3, 2>>, <<4, 3>>))
    @@ (Name("ngc", ".imh") :> ImageHeaderFile(2, 1, <<3, 1>>, <<4, 1>>, <<LineObject>>))
    @@ (Name("ngc", ".pix") :> ImagePixFile(2, 1, <<3, 1>>, <<4, 1>>))
    @@ (Name("cube", ".imh") :> ImageHeaderFile(1, 3, <<2, 2>>, <<2, 2>>, <<LineNaxis>>))
    @@ (Name("cube", ".pix") :> ImagePixFile(1, 3, <<2, 2>>, <<2, 2>>))
    @@ (Name("hyper", ".imh") :> ImageHeaderFile(2, 4, <<2, 2>>, <<2, 2>>, <<LineNaxis>>))
    @@ (Name("hyper", ".pix") :> ImagePixFile(2, 4, <<2, 2>>, <<2, 2>>))
    @@ (Name("junk", ".imh") :> Zeros(2052))
    @@ (Name("junk", ".pix") :> ImagePixFile(1, 2, <<2, 2>>, <<2, 2>>))
    @@ (Name("lone", ".imh") :> ImageHeaderFile(1, 2, <<2, 2>>, <<2, 2>>, <<LineNaxis>>))
    @@ (Name("filt", ".imh") :> ImageHeaderFile(1, 2, <<2, 2>>, <<2, 2>>, <<LineFilter>>))
    @@ (Name("filt", ".pix") :> ImagePixFile(1, 2, <<2, 2>>, <<2, 2>>))
    @@ (Name("gone", ".pix") :> ImagePixFile(1, 2, <<2, 2>>, <<2, 2>>))
    @@ (Name("notes", ".txt") :> Encode(TextTargetName))

\* The files that may be named on the command line.
ArgFiles ==
    {[dir |-> "", root |-> r, extn |-> ".imh"] :
        r \in {"m51", "ngc", "cube", "hyper", "junk", "lone", "filt", "gone"}}
    \cup {[dir |-> "", root |-> "notes", extn |-> ".txt"]}

\* The orders in which a set of paths may be listed.
RECURSIVE Orders(_)
Orders(S) ==
    IF S = {} THEN {<<>>}
    ELSE UNION {{<<x>> \o s : s \in Orders(S \ {x})} : x \in S}

\* findAll('*.imh', './'): the header files under the current directory, in
\* the order os.walk lists them, which is any order.
findAll(dsk) ==
    Orders({[dir |-> "./", root |-> n.root, extn |-> n.extn] : n \in {m \in dsk : m.extn = ".imh"}})

\* The body of the loop for a header file f: the files are located, the
\* image is constructed (header, then pixels) and saved.  built tells
\* whether it got as far as assigning image.
ConvertPair(host, force, dbg, vrb, lst, dsk, f) ==
    LET pixname == Name(f.root, ".pix")
        pixpath == [dir |-> IF f.dir = "" THEN "./" ELSE f.dir,
                    root |-> f.root, extn |-> ".pix"]
        failed(e) == [exc |-> e, built |-> FALSE, hdr |-> NoObject, pix |-> NoObject,
                      wrote |-> FALSE]
        Converted(h, p, t) ==
            IF h.exc # None THEN failed(h.exc)
            ELSE IF p.exc # None THEN failed(p.exc)
            ELSE [exc |-> t.exc, built |-> TRUE, hdr |-> h.self, pix |-> p.self,
                  wrote |-> t.wrote]
        Image(h, p) == Converted(h, p, ToFITS(h.self, p.self, vrb, lst))
    IN  IF Name(f.root, f.extn) \notin dsk THEN failed("Exception")
        ELSE IF pixname \notin dsk THEN failed("TypeError")
        ELSE Image(OIFHeaderInit(host, force, dbg, f, FS[Name(f.root, f.extn)]),
                   OIFPixfileInit(host, force, dbg, pixpath, FS[pixname]))

\* A plausible slip: a failure caught inside the loop, which goes on.
RaisedAndContinue(i, e) == [pc |-> "loop", fi |-> i + 1, exc |-> e]

\* An exception raised in the body of the loop at position i: nothing in
\* __main__ catches it, so it ends the program.
Raised(i, e) == [pc |-> "raised", fi |-> i, exc |-> e]

Init ==
    /\ byteorder \in Hosts
    /\ force_swap \in BOOLEAN
    /\ debug \in BOOLEAN
    /\ verbose \in BOOLEAN
    /\ list_only \in BOOLEAN
    /\ \/ /\ files \in SeqsUpTo(ArgFiles, MaxFiles) \ {<<>>}
          /\ disk = DOMAIN FS
       \/ /\ files = <<>>
          /\ \E H \in SUBSET {n \in DOMAIN FS : n.extn = ".imh"} :
                /\ Cardinality(H) <= MaxFiles
                /\ disk = {n \in DOMAIN FS : n.extn # ".imh"} \cup H
    /\ pc = "main"
    /\ path = NoPath /\ content = <<>> /\ ret = <<>>
    /\ hdrfile = NoObject /\ pixfile = NoObject /\ hdu = NoObject
    /\ exc = None /\ fi = 0 /\ written = <<>>

\* The end of the argument processing: with no file named, all header files
\* found are the input.
FindInputs ==
    /\ pc = "main"
    /\ files' \in (IF Len(files) = 0 THEN findAll(disk) ELSE {files})
    /\ pc' = "loop"
    /\ UNCHANGED <<byteorder, force_swap, debug, verbose, list_only, path, content,
                   ret, hdrfile, pixfile, hdu, exc, fi, written, disk>>

\* One iteration of the loop over files.
ConvertNext ==
    /\ pc = "loop"
    /\ fi < Len(files)
    /\ LET f == files[fi + 1]
           Step(r, next) ==
               /\ pc' = next.pc
               /\ fi' = next.fi
               /\ exc' = next.exc
               /\ path' = IF f.extn = ".imh"
                          THEN (IF f.dir = "" THEN "./" ELSE f.dir) ELSE path
               /\ hdrfile' = IF f.extn = ".imh" /\ r.built THEN r.hdr ELSE hdrfile
               /\ pixfile' = IF f.extn = ".imh" /\ r.built THEN r.pix ELSE pixfile
               /\ written' = IF f.extn = ".imh" /\ r.wrote
                             THEN Append(written, FitsPath(f.root)) ELSE written
           Body(r) == Step(r, IF f.extn = ".imh" /\ r.exc # None
                              THEN Raised(fi, r.exc)
                              ELSE [pc |-> "loop", fi |-> fi + 1, exc |-> exc])
       IN  Body(ConvertPair(byteorder, force_swap, debug, verbose, list_only, disk, f))
    /\ UNCHANGED <<byteorder, force_swap, debug, verbose, list_only, content, ret,
                   hdu, files, disk>>

\* The loop ends after the last file.
LoopEnd ==
    /\ pc = "loop"
    /\ fi = Len(files)
    /\ pc' = "done"
    /\ UNCHANGED <<byteorder, force_swap, debug, verbose, list_only, path, content,
                   ret, hdrfile, pixfile, hdu, exc, files, fi, written, disk>>

Next == FindInputs \/ ConvertNext \/ LoopEnd

Spec == Init /\ [][Next]_vars

-----------------------------------------------------------------------------
(* Claims *)

\* The UTF-16 bytes of a word of ASCII codes in byte order order.
Utf16(word, order) ==
    Concat([i \in 1..Len(word) |-> IF order = "big" THEN <<0, word[i]>> ELSE <<word[i], 0>>])

imhdr == <<105, 109, 104, 100, 114>>
impix == <<105, 109, 112, 105, 120>>
imhv2 == <<105, 109, 104, 118, 50>>
impv2 == <<105, 109, 112, 118, 50>>

\* C1: on either host, a buffer that starts with the UTF-16 bytes of 'imhdr'
\* or 'impix' in some byte order is a V1 header or V1 pixel file, to be
\* swapped exactly when the host's order is not that order; one that starts
\* with 'imhv2' or 'impv2' is a V2 header or pixel file, to be swapped
\* exactly on a little-endian host; every other buffer is of no type and has
\* no swap flag.
C1_MagicDetector ==
    pc = "done" =>
        LET ten == IF Len(content) >= 10 THEN SubSeq(content, 1, 10) ELSE <<>>
            five == IF Len(content) >= 5 THEN SubSeq(content, 1, 5) ELSE <<>>
            v1(word, type) ==
                \A o \in Hosts :
                    ten = Utf16(word, o) => ret = <<type, PyBool(byteorder # o)>>
            v2(word, type) ==
                five = word => ret = <<type, PyBool(byteorder = "little")>>
        IN  /\ v1(imhdr, V1HDR)
            /\ v1(impix, V1PIX)
            /\ v2(imhv2, V2HDR)
            /\ v2(impv2, V2PIX)
            /\ (/\ \A o \in Hosts : ten \notin {Utf16(imhdr, o), Utf16(impix, o)}
                /\ five \notin {imhv2, impv2})
               => ret = <<None, None>>

\* A little-endian V1 pixel file classified on a big-endian host.
C1_Witness ==
    /\ pc = "done"
    /\ byteorder = "big"
    /\ PyTo(content, 10) = Utf16(impix, "little")
    /\ ret = <<V1PIX, "True">>

\* C7: constructing an OIFHeader from a file that fileType does not classify
\* as a V1 or V2 header ends in an exception.
C7_NonHeaderRejected ==
    (pc = "done" /\ fileType(byteorder, content)[1] \notin {V1HDR, V2HDR})
        => exc # None

\* C10: without -s, on either host, the integers of a V1 header (pixel type,
\* ndim, dims, pdims, date) are read in the byte order of the magic pattern
\* that matched.
C10_V1FileOrder ==
    (pc = "done" /\ ~ force_swap /\ exc = None) =>
        \A o \in Hosts :
            PyTo(content, 10) = Utf16(imhdr, o) =>
                LET fmt == IF o = "big" THEN ">i" ELSE "<i"
                IN  /\ hdrfile.pixtype = UnpackInt(fmt, SubSeq(content, 17, 20))
                    /\ hdrfile.ndim = UnpackInt(fmt, SubSeq(content, 21, 24))
                    /\ hdrfile.dims = UnpackInts(fmt, SubSeq(content, 25, 52))
                    /\ hdrfile.pdims = UnpackInts(fmt, SubSeq(content, 53, 80))
                    /\ hdrfile.date = UnpackInt(fmt, SubSeq(content, 109, 112)) + EPOCH_1980

\* C2: when readPixels has decoded a 2-D image whose data hold exactly
\* Pw * Ph elements and whose logical axes (Lw, Lh) lie within the physical
\* axes (Pw, Ph), the pixel array has shape (Lw, Lh) and its element (i, j)
\* is element j * Pw + i of the data, for every i < Lw and j < Lh.
C2_CropTopLeft ==
    (/\ pc = "done"
     /\ "pixels" \in DOMAIN pixfile
     /\ pixfile.ndim = 2
     /\ pixfile.pdims[1] >= 1 /\ pixfile.pdims[2] >= 1
     /\ Len(pixfile.data) =
            ItemSize(pixtypes[pixfile.pixtype]) * pixfile.pdims[1] * pixfile.pdims[2]
     /\ pixfile.dims[1] \in 0..pixfile.pdims[1]
     /\ pixfile.dims[2] \in 0..pixfile.pdims[2])
    =>
        LET Pw == pixfile.pdims[1]
            Lw == pixfile.dims[1]
            Lh == pixfile.dims[2]
            physical == FromBuffer(pixfile.data, pixtypes[pixfile.pixtype],
                                   PixelByteOrder(byteorder, force_swap, pixfile))
        IN  /\ pixfile.pixels.shape = <<Lw, Lh>>
            /\ Len(pixfile.pixels.elems) = Lw
            /\ \A i \in 0..(Lw - 1) :
                   /\ Len(pixfile.pixels.elems[i + 1]) = Lh
                   /\ \A j \in 0..(Lh - 1) :
                          pixfile.pixels.elems[i + 1][j + 1] = physical[j * Pw + i + 1]

\* The 4 x 3 image of values 0 .. 11 cropped to 3 x 2: element (0, 0) is 0
\* and element (2, 1) is 6.
C2_Witness ==
    /\ pc = "done"
    /\ exc = None
    /\ "pixels" \in DOMAIN pixfile
    /\ pixfile.ndim = 2
    /\ pixfile.pdims[1] = 4 /\ pixfile.pdims[2] = 3
    /\ pixfile.dims[1] = 3 /\ pixfile.dims[2] = 2
    /\ pixfile.pixels.shape = <<3, 2>>
    /\ pixfile.pixels.elems[1][1] = 0
    /\ pixfile.pixels.elems[3][2] = 6

\* C9: for a V1 or V2 pixel file, on either host, the byte order resolved
\* for the pixel data under -s is the opposite of the order resolved for the
\* same file without -s.
C9_ForcedSwapInverts ==
    (/\ pc = "done"
     /\ "type" \in DOMAIN pixfile
     /\ pixfile.type \in {V1PIX, V2PIX}
     /\ "pixtype" \in DOMAIN pixfile)
    =>
        PixelByteOrder(byteorder, force_swap, pixfile)
            # PixelByteOrder(byteorder, ~ force_swap,
                  OIFPixfileInit(byteorder, ~ force_swap, debug, path, content).self)

\* The keyword lines of the header that are not blank, in order: when
\* toFITS raises nothing, card i of the header comes from line i of these.
NonBlank(keywords) == SelectSeq(keywords, LAMBDA l : Strip(l) # <<>>)

\* C4: the line "OBJECT  = 'M31'            / target name" is translated to
\* the card of key OBJECT, value 'M31' with its quotes, and comment
\* "target name".
C4_ObjectCard ==
    pc = "done" =>
        \A i \in 1..Len(NonBlank(hdrfile.keywords)) :
            (NonBlank(hdrfile.keywords)[i] = LineObject /\ Len(hdu.header) >= i)
                => hdu.header[i] =
                       [k |-> TextOBJECT, v |-> StrValue(TextQuotedM31), c |-> TextTargetName]

\* C5: a line that starts with HISTORY or COMMENT is translated to a card of
\* that key whose value is the text after the key field as it stands (with
\* or without the separating character, trimmed or not) and whose comment is
\* empty.
C5_HistoryVerbatim ==
    pc = "done" =>
        \A i \in 1..Len(NonBlank(hdrfile.keywords)) :
            LET key == NonBlank(hdrfile.keywords)[i]
            IN  (PyTo(key, 7) \in {HISTORY, COMMENT} /\ Len(hdu.header) >= i)
                    => /\ hdu.header[i].k = PyTo(key, 7)
                       /\ hdu.header[i].v \in
                              {StrValue(PyFrom(key, 7)), StrValue(PyFrom(key, 8)),
                               StrValue(Strip(PyFrom(key, 7)))}
                       /\ hdu.header[i].c = <<>>

\* A line that is not HISTORY or COMMENT and whose value text is no boolean
\* word, no integer and no float.
IsFallbackLine(key) ==
    /\ PyTo(key, 7) \notin {HISTORY, COMMENT}
    /\ SplitKeyword(key).exc = None
    /\ LET v == SplitKeyword(key).v
       IN  /\ Lower(v) \notin BoolWords
           /\ ~ IsDecInteger(Unsigned(v))
           /\ ~ IsPointFloat(Unsigned(v))

\* C6: when the keyword loop reaches a line whose value is no boolean word,
\* integer or float, it raises nothing and adds the card whose value is the
\* text with its surrounding quotes stripped.
C6_FallbackString ==
    pc = "done" =>
        \A i \in 1..Len(NonBlank(hdrfile.keywords)) :
            LET key == NonBlank(hdrfile.keywords)[i]
            IN  (IsFallbackLine(key) /\ Len(hdu.header) >= i - 1)
                    => /\ Len(hdu.header) >= i
                       /\ hdu.header[i].v = StrValue(StripQuotes(SplitKeyword(key).v))


\* ------------------------------------------------------------------------
\* The driver loop.

\* The outcome of the loop body on the input f in the current run.
Outcome(f) == ConvertPair(byteorder, force_swap, debug, verbose, list_only, disk, f)

\* The pixel object OIFPixfile builds from the pixel file of name n.
PixelObject(n) ==
    OIFPixfileInit(byteorder, force_swap, debug,
                   [dir |-> "./", root |-> n.root, extn |-> ".pix"], FS[n])

\* C3: decoding a pixel file whose dimensionality field is above 2 ends in
\* a failure.  For every pair of the input list whose pixel file decodes to
\* ndim > 2: the constructor raises, the object has no pixel array (nothing
\* was cropped or reshaped), the loop never gets past that pair, it ends
\* with the exception when it comes to it, and no output image of the pair
\* is ever written.
C3_NoImageAbove2D ==
    \A i \in 1..Len(files) :
        LET n == Name(files[i].root, ".pix")
            Fails(p) ==
                ("ndim" \in DOMAIN p.self /\ p.self.ndim > 2) =>
                    /\ p.exc # None
                    /\ "pixels" \notin DOMAIN p.self
                    /\ \A j \in 1..Len(written) : written[j] # FitsPath(n.root)
                    /\ fi < i
                    /\ (pc = "raised" /\ fi + 1 = i) => exc # None
        IN  (files[i].extn = ".imh" /\ n \in DOMAIN FS) => Fails(PixelObject(n))

\* The loop has come to the 3-D image cube and readPixels has raised.
C3_Witness ==
    /\ pc = "raised"
    /\ files[fi + 1] = [dir |-> "", root |-> "cube", extn |-> ".imh"]
    /\ PixelObject(Name("cube", ".pix")).self.ndim = 3
    /\ exc = "Exception"
    /\ written = <<>>

\* The inputs the loop would convert and write when it came to them.
Convertible(f) == f.extn = ".imh" /\ Outcome(f).exc = None /\ Outcome(f).wrote

\* The output files of the first n inputs, in order.
RECURSIVE OutputsOf(_)
OutputsOf(n) ==
    IF n = 0 THEN <<>>
    ELSE IF Convertible(files[n]) THEN Append(OutputsOf(n - 1), FitsPath(files[n].root))
    ELSE OutputsOf(n - 1)

\* C8 as stated: when the program has ended, every convertible pair of the
\* list has been converted, whatever failed before it.
C8_Original ==
    pc \in {"done", "raised"} =>
        \A i \in 1..Len(files) :
            Convertible(files[i]) => \E j \in 1..Len(written) : written[j] = FitsPath(files[i].root)

\* C8: the loop ends at the first pair that fails.  The pairs passed have
\* all gone through without exception, the outputs written are exactly
\* theirs, and when a pair fails its exception ends the program at that
\* pair: no step is left to take, so no later pair is attempted.
C8_StopsAtFirstFailure ==
    pc \in {"loop", "raised", "done"} =>
        /\ \A i \in 1..fi : files[i].extn = ".imh" => Outcome(files[i]).exc = None
        /\ written = OutputsOf(fi)
        /\ pc = "raised" =>
              /\ fi < Len(files)
              /\ exc # None /\ exc = Outcome(files[fi + 1]).exc
              /\ ~ ENABLED Next
        /\ pc = "done" => fi = Len(files) /\ exc = None

\* A pair has failed in front of a pair that would have been converted.
C8_Witness ==
    /\ pc = "raised"
    /\ fi = 0
    /\ Len(files) = 2
    /\ Convertible(files[2])
    /\ written = <<>>

=============================================================================
